---- MODULE Spec2Model ----
(***************************************************************************)
(* Model of aliexpress-product-archiver: main.rs runs fetch_html, writes   *)
(* the debug dump, runs parse_product and save_to_file, then prints.       *)
(*                                                                         *)
(* Text (HTML, JSON, titles) is a sequence of tokens; each token is a      *)
(* string.  The characters that JSON escapes (the quote and the backslash) *)
(* are always tokens of their own.  A file is [exists, data].              *)
(* An Option is a sequence of length at most one.                          *)
(***************************************************************************)
EXTENDS Integers, Sequences, FiniteSets

VARIABLES
    pc,            \* where main is: start, build, send, policy, text, dump, parse, save, print, exit
    product_id,    \* main.rs: let product_id
    url,           \* the argument main passes to fetch_html (None before the call)
    cur_host,      \* host of the request reqwest has in flight
    previous,      \* attempt.previous().len(): number of URLs already visited
    next_host,     \* attempt.url().host_str(): host of the redirect target
    html,          \* Option: the text fetch_html returned
    product,       \* Option: the record parse_product returned
    dump_file,     \* product_page_{product_id}.html
    archive_file,  \* archive.json
    fs0,           \* the two files as they were when the process started
    stdout,        \* lines printed
    status,        \* running, ok (exit 0), err (main returned Err), panic (expect failed)
    err,           \* which failure ended the run ("" when none)
    trace          \* the calls main made and the ones that returned Ok, in order

vars == <<pc, product_id, url, cur_host, previous, next_host, html, product,
          dump_file, archive_file, fs0, stdout, status, err, trace>>

(***************************************************************************)
(* Bounds of the model.                                                    *)
(***************************************************************************)
MaxDocLen == 4
MaxTitleLen == 2

(***************************************************************************)
(* Generic helpers.                                                        *)
(***************************************************************************)
RECURSIVE SeqsUpTo(_, _)
SeqsUpTo(S, n) ==
    IF n = 0 THEN {<<>>}
    ELSE LET shorter == SeqsUpTo(S, n - 1)
         IN  shorter \cup {Append(s, x) : s \in {t \in shorter : Len(t) = n - 1}, x \in S}

Count(s, e) == Cardinality({i \in 1..Len(s) : s[i] = e})

IndexOf(s, e) == IF \E i \in 1..Len(s) : s[i] = e
                 THEN CHOOSE i \in 1..Len(s) : s[i] = e /\ \A j \in 1..(i - 1) : s[j] # e
                 ELSE 0

Before(s, a, b) == IndexOf(s, a) > 0 /\ IndexOf(s, b) > 0 /\ IndexOf(s, a) < IndexOf(s, b)

IsPrefix(p, s) == Len(p) <= Len(s) /\ SubSeq(s, 1, Len(p)) = p

(***************************************************************************)
(* Files: std::fs::File::create and std::io::Write::write_all.             *)
(***************************************************************************)
Absent == [exists |-> FALSE, data |-> <<>>]

\* File::create: creates the file, truncating it when it exists.
FileCreate(file) == [exists |-> TRUE, data |-> <<>>]

\* The file after n bytes of `bytes` were written from offset 0.
WriteBytes(file, bytes, n) ==
    [exists |-> TRUE,
     data |-> SubSeq(bytes, 1, n) \o SubSeq(file.data, n + 1, Len(file.data))]

\* create + write_all: Ok with everything written; Err at create (nothing touched);
\* Err in write_all after fewer than all bytes reached the file.
CreateAndWrite(file, bytes) ==
    {[ok |-> TRUE, at |-> "", file |-> WriteBytes(FileCreate(file), bytes, Len(bytes))]}
    \cup {[ok |-> FALSE, at |-> "create", file |-> file]}
    \cup {[ok |-> FALSE, at |-> "write", file |-> WriteBytes(FileCreate(file), bytes, n)] :
            n \in 0..(Len(bytes) - 1)}

(***************************************************************************)
(* HTML.  A document is a sequence of source tokens: start and end tags,   *)
(* text characters and the character reference &amp;.                      *)
(***************************************************************************)
TitleOpen == "<h1 class=\"product-title-text\">"   \* an h1 carrying the class
H1Open    == "<h1>"                                \* an h1 without it
H1Close   == "</h1>"
SpanOpen  == "<span>"
SpanClose == "</span>"
AmpRef    == "&amp;"

HeadingOpens == {TitleOpen, H1Open}
OpenTags     == {TitleOpen, H1Open, SpanOpen}
CloseTags    == {H1Close, SpanClose}
SourceTokens == OpenTags \cup CloseTags \cup {"a", " ", AmpRef}

\* The end tag that closes an element.
CloserOf(open) == IF open = SpanOpen THEN SpanClose ELSE H1Close

\* The tokenizer decodes a character reference to the character it names.
DecodeText(t) == IF t = AmpRef THEN "&" ELSE t

\* End tags of the open elements of `stack`, innermost first.
RECURSIVE ClosersFor(_)
ClosersFor(stack) ==
    IF stack = <<>> THEN <<>>
    ELSE <<CloserOf(stack[Len(stack)])>> \o ClosersFor(SubSeq(stack, 1, Len(stack) - 1))

\* Index of the innermost open heading of `stack`, 0 when there is none.
InnermostHeading(stack) ==
    IF \E i \in 1..Len(stack) : stack[i] \in HeadingOpens
    THEN CHOOSE i \in 1..Len(stack) :
            stack[i] \in HeadingOpens /\ \A j \in (i + 1)..Len(stack) : stack[j] \notin HeadingOpens
    ELSE 0

(***************************************************************************)
(* Html::parse_document: the HTML5 tree builder ("in body") on this        *)
(* vocabulary.  It never fails.  The tree is kept as the well-formed token *)
(* stream of its elements in document order, text decoded.                 *)
(*   start tag h1   : an open heading that is the current node is popped   *)
(*                    first; then the element is inserted                  *)
(*   start tag span : the element is inserted                              *)
(*   end tag h1     : ignored when no heading is open; otherwise elements  *)
(*                    are popped up to and including the innermost heading *)
(*   end tag span   : closes the current node when it is a span; ignored   *)
(*                    otherwise (a heading is a special element)           *)
(*   end of input   : every open element is closed                         *)
(***************************************************************************)
RECURSIVE TreeBuild(_, _, _, _)
TreeBuild(src, i, stack, out) ==
    IF i > Len(src) THEN out \o ClosersFor(stack)
    ELSE
    LET t   == src[i]
        n   == Len(stack)
        top == IF n = 0 THEN "" ELSE stack[n]
        h   == InnermostHeading(stack)
    IN  IF t \in HeadingOpens THEN
            IF top \in HeadingOpens
            THEN TreeBuild(src, i + 1, Append(SubSeq(stack, 1, n - 1), t), out \o <<H1Close, t>>)
            ELSE TreeBuild(src, i + 1, Append(stack, t), Append(out, t))
        ELSE IF t = SpanOpen THEN
            TreeBuild(src, i + 1, Append(stack, t), Append(out, t))
        ELSE IF t = H1Close THEN
            IF h = 0
            THEN TreeBuild(src, i + 1, stack, out)
            ELSE TreeBuild(src, i + 1, SubSeq(stack, 1, h - 1),
                           out \o ClosersFor(SubSeq(stack, h, n)))
        ELSE IF t = SpanClose THEN
            IF top = SpanOpen
            THEN TreeBuild(src, i + 1, SubSeq(stack, 1, n - 1), Append(out, SpanClose))
            ELSE TreeBuild(src, i + 1, stack, out)
        ELSE TreeBuild(src, i + 1, stack, Append(out, DecodeText(t)))

ParseDocument(src) == TreeBuild(src, 1, <<>>, <<>>)

\* Nesting depth of `doc` after its first k tokens, relative to the start.
RECURSIVE Depth(_, _)
Depth(doc, k) ==
    IF k = 0 THEN 0
    ELSE Depth(doc, k - 1)
         + (IF doc[k] \in OpenTags THEN 1 ELSE IF doc[k] \in CloseTags THEN -1 ELSE 0)

\* doc.select(&title_selector).next(): position of the first element in document
\* order that is an h1 with the class; 0 when no element matches.
SelectFirst(doc) == IndexOf(doc, TitleOpen)

\* Position of the end tag of the element that starts at position i.
EndOf(doc, i) ==
    CHOOSE j \in (i + 1)..Len(doc) :
        /\ Depth(doc, j) = Depth(doc, i - 1)
        /\ \A k \in i..(j - 1) : Depth(doc, k) > Depth(doc, i - 1)

\* The tokens of the tree strictly inside the element that starts at position i.
Children(doc, i) == SubSeq(doc, i + 1, EndOf(doc, i) - 1)

\* The HTML serializer on one token of the tree: text is escaped, a tag is
\* written with its attribute, the attribute's quotes as tokens of their own.
SerializeToken(t) ==
    IF t = "&" THEN <<AmpRef>>
    ELSE IF t = TitleOpen THEN <<"<h1 class=", "\"", "product-title-text", "\"", ">">>
    ELSE <<t>>

RECURSIVE Serialize(_)
Serialize(toks) ==
    IF toks = <<>> THEN <<>> ELSE SerializeToken(Head(toks)) \o Serialize(Tail(toks))

\* ElementRef::inner_html: the serialization of the element's children.
InnerHtml(doc, i) == Serialize(Children(doc, i))

\* ElementRef::text() collected: the text of the element's descendants.
InnerText(doc, i) == SelectSeq(Children(doc, i), LAMBDA t : t \notin OpenTags \cup CloseTags)

\* str::trim: leading and trailing whitespace removed.
IsSpace(t) == t = " "

RECURSIVE TrimStart(_)
TrimStart(s) == IF s # <<>> /\ IsSpace(Head(s)) THEN TrimStart(Tail(s)) ELSE s

RECURSIVE TrimEnd(_)
TrimEnd(s) == IF s # <<>> /\ IsSpace(s[Len(s)]) THEN TrimEnd(SubSeq(s, 1, Len(s) - 1)) ELSE s

Trim(s) == TrimEnd(TrimStart(s))

UnknownTitle == <<"Unknown Title">>

\* unwrap_or_default in place of unwrap_or_else(|| "Unknown Title".into()).
TitleOfDefaultEmpty(src) ==
    LET doc == ParseDocument(src)
        i   == SelectFirst(doc)
    IN  IF i = 0 THEN <<>> ELSE Trim(InnerHtml(doc, i))

\* parser.rs, lines 6-13: the title parse_product gives the record.
TitleOf(src) ==
    LET doc == ParseDocument(src)
        i   == SelectFirst(doc)
    IN  IF i = 0 THEN UnknownTitle ELSE Trim(InnerHtml(doc, i))

\* parse_product(product_id, html) at the instant `now`; it returns Ok always.
parse_product(id, src, now) ==
    [product_id |-> id, title |-> TitleOf(src), timestamp |-> now]

(***************************************************************************)
(* JSON: serde_json::to_string_pretty and from_str on Product (models.rs). *)
(***************************************************************************)
DigitChars == <<"0", "1", "2", "3", "4", "5", "6", "7", "8", "9">>
IsDigit(t) == \E d \in 1..10 : DigitChars[d] = t
DigitVal(t) == (CHOOSE d \in 1..10 : DigitChars[d] = t) - 1

\* An unsigned integer in decimal.
RECURSIVE Digits(_)
Digits(n) ==
    IF n < 10 THEN <<DigitChars[n + 1]>>
    ELSE Append(Digits(n \div 10), DigitChars[(n % 10) + 1])

Quote     == "\""
Backslash == "\\"

\* One character of a string as JSON writes it.
EscapeChar(c) ==
    IF c = Quote THEN <<Backslash, Quote>>
    ELSE IF c = Backslash THEN <<Backslash, Backslash>>
    ELSE IF c = "\n" THEN <<Backslash, "n">>
    ELSE <<c>>

RECURSIVE EscapeStr(_)
EscapeStr(s) == IF s = <<>> THEN <<>> ELSE EscapeChar(Head(s)) \o EscapeStr(Tail(s))

JsonString(s) == <<Quote>> \o EscapeStr(s) \o <<Quote>>

\* The pieces of the pretty-printed object around the three values.
JsonOpen   == <<"{", "\n  ", Quote, "product_id", Quote, ": ">>
JsonTitle  == <<",", "\n  ", Quote, "title", Quote, ": ">>
JsonStamp  == <<",", "\n  ", Quote, "timestamp", Quote, ": ">>
JsonClose  == <<"\n", "}">>

\* to_string_pretty(product): the fields in declaration order, indented by two.
ToStringPretty(p) ==
    JsonOpen \o Digits(p.product_id)
    \o JsonTitle \o JsonString(p.title)
    \o JsonStamp \o JsonString(p.timestamp)
    \o JsonClose

\* Whether `lit` stands in `s` at position i.
LitAt(s, i, lit) == i + Len(lit) - 1 <= Len(s) /\ SubSeq(s, i, i + Len(lit) - 1) = lit

\* Reads an unsigned integer at position i: [ok, val, next].
RECURSIVE ReadNumber(_, _, _, _)
ReadNumber(s, i, acc, any) ==
    IF i <= Len(s) /\ IsDigit(s[i])
    THEN ReadNumber(s, i + 1, acc * 10 + DigitVal(s[i]), TRUE)
    ELSE [ok |-> any, val |-> acc, next |-> i]

\* Reads the characters of a string up to its closing quote, i after the
\* opening quote: [ok, val, next].
RECURSIVE ReadChars(_, _, _)
ReadChars(s, i, acc) ==
    IF i > Len(s) THEN [ok |-> FALSE, val |-> acc, next |-> i]
    ELSE IF s[i] = Quote THEN [ok |-> TRUE, val |-> acc, next |-> i + 1]
    ELSE IF s[i] = Backslash THEN
        IF i + 1 <= Len(s) /\ s[i + 1] \in {Quote, Backslash}
        THEN ReadChars(s, i + 2, Append(acc, s[i + 1]))
        ELSE IF i + 1 <= Len(s) /\ s[i + 1] = "n"
        THEN ReadChars(s, i + 2, Append(acc, "\n"))
        ELSE [ok |-> FALSE, val |-> acc, next |-> i]
    ELSE ReadChars(s, i + 1, Append(acc, s[i]))

ReadString(s, i) ==
    IF i <= Len(s) /\ s[i] = Quote THEN ReadChars(s, i + 1, <<>>)
    ELSE [ok |-> FALSE, val |-> <<>>, next |-> i]

\* serde_json::from_str::<Product>: Some(record) when the whole text is one
\* object with the three fields, None otherwise.
FromStr(s) ==
    IF ~LitAt(s, 1, JsonOpen) THEN <<>> ELSE
    LET id == ReadNumber(s, 1 + Len(JsonOpen), 0, FALSE) IN
    IF ~id.ok \/ ~LitAt(s, id.next, JsonTitle) THEN <<>> ELSE
    LET ti == ReadString(s, id.next + Len(JsonTitle)) IN
    IF ~ti.ok \/ ~LitAt(s, ti.next, JsonStamp) THEN <<>> ELSE
    LET ts == ReadString(s, ti.next + Len(JsonStamp)) IN
    IF ~ts.ok \/ ~LitAt(s, ts.next, JsonClose) \/ ts.next + Len(JsonClose) - 1 # Len(s)
    THEN <<>>
    ELSE <<[product_id |-> id.val, title |-> ti.val, timestamp |-> ts.val]>>

\* save_to_file with write in place of write_all: one write may take fewer
\* bytes than given and still return Ok.
save_to_file_short_write(p, file) ==
    CreateAndWrite(file, ToStringPretty(p))
    \cup {[ok |-> TRUE, at |-> "",
           file |-> WriteBytes(FileCreate(file), ToStringPretty(p), n)] :
            n \in 1..(Len(ToStringPretty(p)) - 1)}

\* save_to_file with a plain write of the title, no escaping.
save_to_file_raw(p, file) ==
    CreateAndWrite(file,
        JsonOpen \o Digits(p.product_id)
        \o JsonTitle \o <<Quote>> \o p.title \o <<Quote>>
        \o JsonStamp \o JsonString(p.timestamp) \o JsonClose)

\* archiver.rs, lines 6-11: the outcomes of save_to_file(product, filename) on a
\* destination in state `file`.  Serializing this record cannot fail.
save_to_file(p, file) == CreateAndWrite(file, ToStringPretty(p))

\* std::fs::write(path, contents) as main.rs line 15 calls it.
fs_write(file, contents) == CreateAndWrite(file, contents)

(***************************************************************************)
(* The fetch: reqwest's client with the custom redirect policy.            *)
(***************************************************************************)
SiteHost    == "vi.aliexpress.com"
BlockedHost == "example.domain"
Hosts       == {SiteHost, BlockedHost, "www.example.domain"}

RedirectLimit == 100

\* main.rs, get_product_url.
get_product_url(id) == <<"https://", SiteHost, "/item/">> \o Digits(id) \o <<".html">>

\* The policy with the ceiling one hop too early.
RedirectPolicyOffByOne(prev, host) ==
    IF prev >= RedirectLimit THEN "error"
    ELSE IF host = BlockedHost THEN "stop"
    ELSE "follow"

\* The policy without the blocked-host branch.
RedirectPolicyNoStop(prev, host) ==
    IF prev > RedirectLimit THEN "error" ELSE "follow"

\* fetcher.rs, lines 11-20: the closure given to redirect::Policy::custom, on
\* attempt.previous().len() and attempt.url().host_str().
RedirectPolicy(prev, host) ==
    IF prev > RedirectLimit THEN "error"
    ELSE IF host = BlockedHost THEN "stop"
    ELSE "follow"

(***************************************************************************)
(* Inputs of the model.                                                    *)
(***************************************************************************)
\* main.rs fixes 1005007181903595; the functions take any u64.
ProductIds == {0, 1005007}

\* chrono::Utc::now().to_rfc3339() at two instants.
Timestamps == {<<"2024-05-01T10:00:00+00:00">>, <<"2024-05-01T10:00:01.5+00:00">>}

\* Response bodies a server may send.
Bodies == {<<>>,
           <<TitleOpen, " ", "a", " ", H1Close>>,
           <<SpanOpen, "a", SpanClose>>,
           <<TitleOpen, "a", AmpRef, "a">>}

\* An archive left by an earlier run, longer than any this model writes.
OldArchive ==
    [exists |-> TRUE,
     data |-> ToStringPretty([product_id |-> 999999999,
                              title |-> <<"o", "l", "d", " ", "t", "i", "t", "l", "e",
                                          " ", "o", "l", "d", " ", "t", "i", "t", "l", "e">>,
                              timestamp |-> <<"2001-01-01T00:00:00+00:00">>])]

PriorArchives == {Absent, [exists |-> TRUE, data |-> <<>>], OldArchive}
PriorDumps    == {Absent, [exists |-> TRUE, data |-> <<"s", "t", "a", "l", "e">>]}

(***************************************************************************)
(* main.                                                                   *)
(***************************************************************************)
Init ==
    /\ pc = "start"
    /\ product_id \in ProductIds
    /\ url = <<>>
    /\ cur_host = ""
    /\ previous = 0
    /\ next_host = ""
    /\ html = <<>>
    /\ product = <<>>
    /\ dump_file \in PriorDumps
    /\ archive_file \in PriorArchives
    /\ fs0 = [dump |-> dump_file, archive |-> archive_file]
    /\ stdout = <<>>
    /\ status = "running"
    /\ err = ""
    /\ trace = <<>>

\* The `?` after which main falls back to the legacy fetch instead of returning.
OnFetchErrorFallback(kind) ==
    /\ IF Count(trace, "_fetch_html_old") = 0
       THEN /\ pc' = "text"
            /\ trace' = Append(trace, "_fetch_html_old")
            /\ UNCHANGED <<status, err>>
       ELSE /\ pc' = "exit"
            /\ status' = "err"
            /\ err' = kind
            /\ UNCHANGED trace
    /\ UNCHANGED <<dump_file>>

\* The `?` after which main leaves an empty dump behind.
OnFetchErrorDumps(kind) ==
    /\ pc' = "exit"
    /\ status' = "err"
    /\ err' = kind
    /\ dump_file' = [exists |-> TRUE, data |-> <<>>]
    /\ UNCHANGED trace

\* main.rs line 12, the `?`: fetch_html returned Err and main returns it.
OnFetchError(kind) ==
    /\ pc' = "exit"
    /\ status' = "err"
    /\ err' = kind
    /\ UNCHANGED <<dump_file, trace>>

\* main.rs lines 10-12: main derives the URL and calls fetch_html on it.
Start ==
    /\ pc = "start"
    /\ pc' = "build"
    /\ url' = <<get_product_url(product_id)>>
    /\ trace' = Append(trace, "fetch_html")
    /\ UNCHANGED <<product_id, cur_host, previous, next_host, html, product, dump_file,
                   archive_file, fs0, stdout, status, err>>

\* fetcher.rs lines 22-26: the client is built (build()? may fail) and the GET
\* for the URL is prepared.
Build ==
    /\ pc = "build"
    /\ \/ /\ pc' = "send"
          /\ cur_host' = SiteHost
          /\ previous' = 0
          /\ UNCHANGED <<status, err, dump_file, trace>>
       \/ /\ OnFetchError("build")
          /\ UNCHANGED <<cur_host, previous>>
    /\ UNCHANGED <<product_id, url, next_host, html, product, archive_file, fs0, stdout>>

\* fetcher.rs line 28, send(): the request in flight is answered.  The transport
\* fails, or the answer is final, or it is a redirect to some host: reqwest then
\* adds the URL just requested to the visited ones and asks the policy.
Send ==
    /\ pc = "send"
    /\ \/ /\ OnFetchError("transport")
          /\ UNCHANGED <<previous, next_host>>
       \/ /\ pc' = "text"
          /\ UNCHANGED <<previous, next_host, status, err, dump_file, trace>>
       \/ \E h \in Hosts :
          /\ pc' = "policy"
          /\ previous' = previous + 1
          /\ next_host' = h
          /\ UNCHANGED <<status, err, dump_file, trace>>
    /\ UNCHANGED <<product_id, url, cur_host, html, product, archive_file, fs0, stdout>>

\* fetcher.rs lines 11-20: the policy decides on the redirect.  error: send()
\* returns Err; stop: the redirect response itself is the result; follow: the
\* target is requested.
Policy ==
    /\ pc = "policy"
    /\ LET action == RedirectPolicy(previous, next_host) IN
       \/ /\ action = "error"
          /\ OnFetchError("redirect")
          /\ UNCHANGED cur_host
       \/ /\ action = "stop"
          /\ pc' = "text"
          /\ UNCHANGED <<cur_host, status, err, dump_file, trace>>
       \/ /\ action = "follow"
          /\ pc' = "send"
          /\ cur_host' = next_host
          /\ UNCHANGED <<status, err, dump_file, trace>>
    /\ UNCHANGED <<product_id, url, previous, next_host, html, product, archive_file,
                   fs0, stdout>>

\* fetcher.rs lines 29-30, text(): the body of the response is read and
\* decoded, or reading it fails.  On Ok fetch_html returns and its client, with
\* the redirect chain, is dropped.
Text ==
    /\ pc = "text"
    /\ \/ \E b \in Bodies :
          /\ html' = <<b>>
          /\ pc' = "dump"
          /\ trace' = Append(trace, "fetch_ok")
          /\ cur_host' = ""
          /\ previous' = 0
          /\ next_host' = ""
          /\ UNCHANGED <<status, err, dump_file>>
       \/ /\ OnFetchError("body")
          /\ UNCHANGED <<html, cur_host, previous, next_host>>
    /\ UNCHANGED <<product_id, url, product, archive_file, fs0, stdout>>

\* A failed dump that main only logs before going on.
OnDumpErrorContinue ==
    /\ pc' = "parse"
    /\ UNCHANGED <<status, err>>

\* main.rs line 16, expect: a failed dump panics.
OnDumpError ==
    /\ pc' = "exit"
    /\ status' = "panic"
    /\ err' = "dump"

\* main.rs lines 15-16: the text is written to product_page_{product_id}.html.
Dump ==
    /\ pc = "dump"
    /\ \E out \in fs_write(dump_file, html[1]) :
          /\ dump_file' = out.file
          /\ IF out.ok
             THEN /\ pc' = "parse"
                  /\ trace' = Append(trace, "dump_ok")
                  /\ UNCHANGED <<status, err>>
             ELSE /\ OnDumpError
                  /\ UNCHANGED trace
    /\ UNCHANGED <<product_id, url, cur_host, previous, next_host, html, product,
                   archive_file, fs0, stdout>>

\* main.rs line 18: parse_product on the text, at the current instant.  The
\* Result is always Ok, so the `?` never returns.
Parse ==
    /\ pc = "parse"
    /\ \E now \in Timestamps :
          product' = <<parse_product(product_id, html[1], now)>>
    /\ pc' = "save"
    /\ trace' = Append(trace, "parse_product")
    /\ UNCHANGED <<product_id, url, cur_host, previous, next_host, html, dump_file,
                   archive_file, fs0, stdout, status, err>>

\* A failed save after which main still prints the confirmation.
OnSaveErrorIgnored(at) ==
    /\ pc' = "print"
    /\ UNCHANGED <<status, err>>

\* main.rs line 20, the `?`: save_to_file returned Err and main returns it.
OnSaveError(at) ==
    /\ pc' = "exit"
    /\ status' = "err"
    /\ err' = at

\* main.rs line 20: save_to_file(&product, "archive.json").
Save ==
    /\ pc = "save"
    /\ \E out \in save_to_file(product[1], archive_file) :
          /\ archive_file' = out.file
          /\ IF out.ok
             THEN /\ pc' = "print"
                  /\ trace' = trace \o <<"save_to_file", "save_ok">>
                  /\ UNCHANGED <<status, err>>
             ELSE /\ OnSaveError(out.at)
                  /\ trace' = Append(trace, "save_to_file")
    /\ UNCHANGED <<product_id, url, cur_host, previous, next_host, html, product,
                   dump_file, fs0, stdout>>

\* main.rs lines 21-22: the confirmation is printed and main returns Ok.
Println ==
    /\ pc = "print"
    /\ stdout' = Append(stdout, "Product archived successfully.")
    /\ trace' = Append(trace, "println")
    /\ pc' = "exit"
    /\ status' = "ok"
    /\ UNCHANGED <<product_id, url, cur_host, previous, next_host, html, product,
                   dump_file, archive_file, fs0, err>>

Next == Start \/ Build \/ Send \/ Policy \/ Text \/ Dump \/ Parse \/ Save \/ Println

Spec == Init /\ [][Next]_vars

(***************************************************************************)
(* parse_product alone: main is about to call it on any document of at     *)
(* most MaxDocLen tokens.                                                  *)
(***************************************************************************)
Docs == SeqsUpTo(SourceTokens, MaxDocLen)

InitParse ==
    /\ pc = "parse"
    /\ product_id \in ProductIds
    /\ url = <<get_product_url(product_id)>>
    /\ cur_host = ""
    /\ previous = 0
    /\ next_host = ""
    /\ \E d \in Docs : html = <<d>>
    /\ product = <<>>
    /\ dump_file = [exists |-> TRUE, data |-> html[1]]
    /\ archive_file = Absent
    /\ fs0 = [dump |-> Absent, archive |-> Absent]
    /\ stdout = <<>>
    /\ status = "running"
    /\ err = ""
    /\ trace = <<"fetch_html", "fetch_ok", "dump_ok">>

NextParse == Parse

SpecParse == InitParse /\ [][NextParse]_vars

(***************************************************************************)
(* save_to_file alone: main is about to call it on any record with a title *)
(* of at most MaxTitleLen characters, on any earlier destination.          *)
(***************************************************************************)
TitleChars == {"a", "n", Quote, Backslash}

Records == [product_id : ProductIds,
            title : SeqsUpTo(TitleChars, MaxTitleLen),
            timestamp : Timestamps]

InitSave ==
    /\ pc = "save"
    /\ \E r \in Records : product = <<r>>
    /\ product_id = product[1].product_id
    /\ url = <<get_product_url(product_id)>>
    /\ cur_host = ""
    /\ previous = 0
    /\ next_host = ""
    /\ html = << <<>> >>
    /\ dump_file = [exists |-> TRUE, data |-> <<>>]
    /\ archive_file \in PriorArchives
    /\ fs0 = [dump |-> Absent, archive |-> archive_file]
    /\ stdout = <<>>
    /\ status = "running"
    /\ err = ""
    /\ trace = <<"fetch_html", "fetch_ok", "dump_ok", "parse_product">>

NextSave == Save

SpecSave == InitSave /\ [][NextSave]_vars

(***************************************************************************)
(* Claims.                                                                 *)
(***************************************************************************)
Has(s, e) == \E i \in 1..Len(s) : s[i] = e

\* The run ended before fetch_html returned Ok.
FetchFailed == pc = "exit" /\ ~Has(trace, "fetch_ok")

\* The calls of a run in which every stage succeeds.
FullTrace == <<"fetch_html", "fetch_ok", "dump_ok", "parse_product",
               "save_to_file", "save_ok", "println">>

\* C1: Redirect ceiling.  When the policy is asked about a redirect whose
\* target is not the blocked host, it follows the redirect (the target is
\* requested next) while at most 100 URLs were visited before, so a chain of up
\* to 100 redirects is followed whole; with more than 100 visited, which first
\* happens at the 101st redirect, fetch_html fails with the redirect-limit
\* error and returns no body.
C1_RedirectCeiling ==
    [][/\ (pc = "policy" /\ next_host # BlockedHost) =>
            IF previous <= RedirectLimit
            THEN pc' = "send" /\ cur_host' = next_host /\ status' = "running" /\ err' = ""
            ELSE pc' = "exit" /\ status' = "err" /\ err' = "redirect"
       /\ (err' = "redirect") =>
            previous' = RedirectLimit + 1 /\ html' = <<>> /\ ~Has(trace', "fetch_ok")
      ]_vars

\* C1 witness: the 101st redirect of a chain without the blocked host has
\* ended the fetch with the redirect-limit error.
C1_Witness ==
    /\ pc = "exit" /\ err = "redirect" /\ status = "err"
    /\ previous = RedirectLimit + 1
    /\ next_host # BlockedHost

\* C2 as stated: whenever the policy is asked about a redirect to the blocked
\* host, at whatever hop, it stops and the fetch goes on to return that
\* response, with no error.
C2_Original ==
    [][(pc = "policy" /\ next_host = BlockedHost) =>
            pc' = "text" /\ status' = "running" /\ err' = ""]_vars

\* C2 amended: a redirect to the blocked host that arrives while at most 100
\* URLs were visited before it stops the chain without error: no further
\* request is sent, and the body of that hop's response is what fetch_html
\* returns, as a success, unless reading the body itself fails.  A redirect to
\* the blocked host arriving as the 101st fails with the redirect-limit error.
C2_BlockedHostStop ==
    [][/\ (pc = "policy" /\ next_host = BlockedHost) =>
            IF previous <= RedirectLimit
            THEN /\ pc' = "text" /\ status' = "running" /\ err' = ""
                 /\ cur_host' = cur_host /\ previous' = previous
            ELSE pc' = "exit" /\ status' = "err" /\ err' = "redirect"
       /\ (pc = "text") =>
            \/ pc' = "dump" /\ Len(html') = 1 /\ status' = "running" /\ err' = ""
            \/ pc' = "exit" /\ err' = "body"
      ]_vars

\* C2 witness: the 100th redirect targeted the blocked host and the chain
\* stopped there, the response waiting to be read.
C2_Witness ==
    pc = "text" /\ next_host = BlockedHost /\ previous = RedirectLimit /\ status = "running"

\* The title the claim C3 describes: the text of the first matching element,
\* trimmed.
TextTitle(src) ==
    LET doc == ParseDocument(src)
    IN  Trim(InnerText(doc, SelectFirst(doc)))

\* C3: Title extraction.  For every product_id and every document with at
\* least one h1 of class product-title-text, the record parse_product returns
\* has as title the inner text of the first such element, trimmed.
C3_TitleIsInnerText ==
    (pc = "save" /\ Has(html[1], TitleOpen)) =>
        /\ Len(product) = 1
        /\ product[1].title = TextTitle(html[1])

\* C4: Missing title is not an error.  parse_product returns a record for
\* every document, and for every document without an h1 of class
\* product-title-text the title of the record is "Unknown Title".
C4_MissingTitle ==
    \/ pc = "parse"
    \/ /\ pc = "save" /\ status = "running" /\ err = ""
       /\ Len(product) = 1
       /\ product[1].product_id = product_id
       /\ ~Has(html[1], TitleOpen) => product[1].title = UnknownTitle

\* C4 witness: a document of unrelated and malformed markup (an h1 without the
\* class, a stray end tag) was parsed into a record with the sentinel title.
C4_Witness ==
    /\ pc = "save"
    /\ ~Has(html[1], TitleOpen)
    /\ Has(html[1], H1Open) /\ Has(html[1], SpanClose)
    /\ product[1].title = UnknownTitle

\* The destination holds exactly the serialized record main built.
ArchiveComplete ==
    /\ Len(product) = 1
    /\ archive_file = [exists |-> TRUE, data |-> ToStringPretty(product[1])]

\* C5 as stated: at the end of any run the destination holds one complete
\* serialized record or was not touched.
C5_Original ==
    pc = "exit" => (archive_file = fs0.archive \/ ArchiveComplete)

\* C5 amended: at the end of a run that succeeded the destination holds
\* exactly the complete serialized record; at the end of a run that failed in
\* the fetch, in the debug dump or in creating the destination, the destination
\* was not touched; when write_all fails after the destination was created, the
\* destination is left holding a proper prefix, possibly empty, of the
\* serialized record.
C5_NoPartialSuccess ==
    pc = "exit" =>
        IF status = "ok" THEN ArchiveComplete
        ELSE IF err = "write"
        THEN /\ archive_file.exists
             /\ IsPrefix(archive_file.data, ToStringPretty(product[1]))
             /\ archive_file.data # ToStringPretty(product[1])
        ELSE archive_file = fs0.archive

\* C5 witness: write_all failed part-way on a destination that held an earlier
\* archive, which is now truncated to a non-empty prefix of the new record.
C5_Witness ==
    /\ pc = "exit" /\ err = "write"
    /\ fs0.archive = OldArchive
    /\ archive_file.data # <<>>
    /\ archive_file # fs0.archive

\* What C6 asks of a state: the calls made so far are an initial part of
\* fetch, dump, extract, persist, print in that order, each made only after
\* the one before returned Ok; the confirmation is printed only after persist
\* returned Ok; a run that ended without all of them ended in failure.
StageOrder ==
    /\ IsPrefix(trace, FullTrace)
    /\ stdout # <<>> => (Has(trace, "save_ok") /\ status = "ok")
    /\ pc = "exit" =>
          IF trace = FullTrace THEN status = "ok" ELSE status \in {"err", "panic"}
    /\ pc # "exit" => status = "running"

\* C6: Stage ordering and abort.  Every state of every run satisfies
\* StageOrder, and nothing runs after the run has ended.
C6_StageOrdering == [][StageOrder' /\ pc # "exit"]_vars

\* C6 witness: persist failed, and the run ended in failure without printing.
C6_Witness ==
    /\ pc = "exit" /\ status = "err"
    /\ trace = <<"fetch_html", "fetch_ok", "dump_ok", "parse_product", "save_to_file">>
    /\ stdout = <<>>

\* C7: Persist round-trip with overwrite.  After save_to_file returned Ok, on
\* any earlier state of the destination, reading the destination and
\* deserializing it gives the record that was saved, and the destination holds
\* nothing else.
C7_RoundTrip ==
    pc = "print" =>
        /\ archive_file.exists
        /\ FromStr(archive_file.data) = product

\* C7 witness: a record whose title has a quote and a backslash was saved over
\* an earlier, longer archive.
C7_Witness ==
    /\ pc = "print"
    /\ fs0.archive = OldArchive
    /\ Has(product[1].title, Quote) /\ Has(product[1].title, Backslash)

\* C8: Debug dump failure is fatal.  A step of the dump that does not end in
\* a written dump ends the run in a panic; and as long as the dump was not
\* written, parse_product and save_to_file were not called, there is no
\* record and the archive is as it was.
C8_DumpFailureFatal ==
    [][/\ (pc = "dump" /\ ~Has(trace', "dump_ok")) =>
            pc' = "exit" /\ status' = "panic" /\ err' = "dump"
       /\ ~Has(trace', "dump_ok") =>
            /\ ~Has(trace', "parse_product") /\ ~Has(trace', "save_to_file")
            /\ product' = <<>>
            /\ archive_file' = fs0.archive
            /\ stdout' = <<>>
      ]_vars

\* C8 witness: the dump failed after truncating an earlier dump; the run
\* panicked and the earlier archive is still there.
C8_Witness ==
    /\ pc = "exit" /\ status = "panic" /\ err = "dump"
    /\ Has(trace, "fetch_ok")
    /\ dump_file # fs0.dump
    /\ archive_file = OldArchive

\* C9: Single fetch, no retry.  fetch_html is called once, on the URL derived
\* from the product identifier, and never again; the legacy fetch is never
\* called; a failed fetch ends the run in failure, with no text.
C9_SingleFetch ==
    [][/\ Count(trace', "fetch_html") = 1
       /\ Count(trace', "_fetch_html_old") = 0
       /\ url' = <<get_product_url(product_id)>>
       /\ (pc \in {"build", "send", "policy", "text"} /\ ~Has(trace', "fetch_ok")) =>
            /\ pc' \in {"send", "policy", "text", "exit"}
            /\ pc' = "exit" => (status' = "err" /\ html' = <<>>)
       /\ pc # "exit"
      ]_vars

\* C9 witness: the transport failed after some redirects were followed, and
\* the run ended with the one call of fetch_html.
C9_Witness ==
    /\ pc = "exit" /\ err = "transport" /\ status = "err"
    /\ previous > 1
    /\ trace = <<"fetch_html">>

\* C10: Frame.  A run whose fetch failed left both files as they were; and
\* whenever the archive differs from what it was, the dump was written before
\* and holds the fetched text verbatim.
C10_Frame ==
    /\ FetchFailed => (dump_file = fs0.dump /\ archive_file = fs0.archive)
    /\ archive_file # fs0.archive =>
          /\ Before(trace, "dump_ok", "save_to_file")
          /\ Len(html) = 1
          /\ dump_file = [exists |-> TRUE, data |-> html[1]]

\* C10 witness: the archive was written after a non-empty text had replaced
\* an earlier dump.
C10_Witness ==
    /\ archive_file # fs0.archive
    /\ fs0.dump.exists
    /\ html # <<>> /\ html[1] # <<>>
    /\ dump_file.data = html[1]

====
